---- MODULE Spec2Model ----
(***************************************************************************)
(* The identicon server of src/src/main.rs: one handler, gen_identicon,    *)
(* that turns a GET request into an image or a rejection.  A behaviour is  *)
(* one request: Init draws the request and the build profile, the action   *)
(* GenIdenticon runs the whole handler on it.  Nothing survives a request, *)
(* so the requests of a server run are independent behaviours.             *)
(*                                                                         *)
(* Numbers are u32.  TLC's integers stop at 2^31 - 1, so requests whose    *)
(* line-61 sum falls in [2^31, 2^32) are left out (Representable);         *)
(* sums that reach 2^32 wrap, or panic when overflow checks are compiled   *)
(* in.  The f32 arithmetic of closest_multiple and `stop` is exact for the *)
(* operand range of the model (all operands and results below 2^23).       *)
(***************************************************************************)
EXTENDS Integers, Sequences, FiniteSets, TLC

VARIABLES
    req,              \* the request: method, path stem and extension, query
    overflow_checks,  \* build profile: TRUE = integer overflow panics
    resp,             \* the response, or the panic that replaced it
    hasher,           \* output_bytes() of the selected digest, 0 before selection
    popped,           \* bits.next() calls made in each visited row
    img               \* the canvas

vars == <<req, overflow_checks, resp, hasher, popped, img>>

----------------------------------------------------------------------------
(* Bounds of the request families.                                         *)

MaxGrid == 23
MaxRes == 24
MaxPad == 2

(* Largest padding the model draws: padding * 2 still fits u32, adding a   *)
(* resolution of 2 or more does not.                                       *)
BigPad == 2147483647

----------------------------------------------------------------------------
(* Options.  An Option is a sequence of length 0 (None) or 1 (Some).       *)

NoneOpt == << >>
Some(x) == << x >>
IsSome(o) == Len(o) = 1
Unwrap(o) == o[1]

(* A query value: the text parses to v, or does not parse.                 *)
Parsed(v) == [ok |-> TRUE, v |-> v]
Garbage == [ok |-> FALSE, v |-> 0]
GarbageBool == [ok |-> FALSE, v |-> FALSE]

parse_query_param_or(query, key, default) ==
    IF IsSome(query[key])
    THEN IF Unwrap(query[key]).ok THEN Unwrap(query[key]).v ELSE default
    ELSE default

----------------------------------------------------------------------------
(* closest_multiple: (m as f32 * (n as f32 / m as f32).round()) as u32.    *)
(* round() is half away from zero; m = 0 gives 0 * inf = NaN, and NaN as   *)
(* u32 is 0.                                                               *)

F32Round(n, m) == (2 * n + m) \div (2 * m)

closest_multiple(n, m) ==
    IF m = 0 THEN 0 ELSE m * F32Round(n, m)

----------------------------------------------------------------------------
(* Locals of gen_identicon, lines 54-61.                                   *)

DefaultGrid == 5
DefaultRes == 200
MaxResolution == 1000
MaxIco == 256

grid_size(r) == parse_query_param_or(r.query, "size", DefaultGrid)
padding(r) == parse_query_param_or(r.query, "pad", 0)
resolution(r) ==
    parse_query_param_or(r.query, "res", closest_multiple(DefaultRes, grid_size(r)))
symmetrical(r) == parse_query_param_or(r.query, "sym", TRUE)
file_name(r) == r.file_name
extension(r) == IF IsSome(r.extension) THEN Unwrap(r.extension) ELSE "png"
cell_size(r) == resolution(r) \div grid_size(r)

(* resolution + padding * 2 in u32.  With room = 2^31 - 1 - padding the    *)
(* sum is 2^32 + (resolution - 2 * room - 2).                              *)
SizeFits(res, pad) == pad <= (BigPad - res) \div 2
SizeOverflows(res, pad) == ~SizeFits(res, pad) /\ res - 2 * (BigPad - pad) - 2 >= 0
SizeWrapped(res, pad) ==
    IF SizeFits(res, pad) THEN res + pad * 2 ELSE res - 2 * (BigPad - pad) - 2

size(r) == SizeWrapped(resolution(r), padding(r))

----------------------------------------------------------------------------
(* The digest, lines 109-127.  The match on grid_size picks the algorithm; *)
(* the wildcard arm is the rejection.                                      *)

NoHasher == ""

(* The table with a bucket boundary moved, three ways.                     *)
SelectHasherThrough22(gs) ==
    CASE gs \in 1..13 -> "Sha224"
      [] gs = 14 -> "Sha256"
      [] gs \in 15..18 -> "Sha384"
      [] gs \in 19..22 -> "Sha512"
      [] OTHER -> NoHasher

SelectHasherSha256To18(gs) ==
    CASE gs \in 1..13 -> "Sha224"
      [] gs \in 14..18 -> "Sha256"
      [] gs \in 19..21 -> "Sha512"
      [] OTHER -> NoHasher

SelectHasherSha224To14(gs) ==
    CASE gs \in 1..14 -> "Sha224"
      [] gs \in 15..18 -> "Sha384"
      [] gs \in 19..21 -> "Sha512"
      [] OTHER -> NoHasher

SelectHasher(gs) ==
    CASE gs \in 1..13 -> "Sha224"
      [] gs = 14 -> "Sha256"
      [] gs \in 15..18 -> "Sha384"
      [] gs \in 19..21 -> "Sha512"
      [] OTHER -> NoHasher

output_bytes(h) ==
    CASE h = "Sha224" -> 28
      [] h = "Sha256" -> 32
      [] h = "Sha384" -> 48
      [] h = "Sha512" -> 64
      [] OTHER -> 0

(* SHA-2 itself is the crypto crate's.  The model keeps what the handler   *)
(* relies on: a fixed function of the algorithm and the input that fills   *)
(* the whole buffer of output_bytes() bytes.                               *)
InputWeight(s) ==
    CASE s = "alice" -> 173
      [] s = "bob" -> 94
      [] OTHER -> 1

HashResult(h, input) ==
    [i \in 1..output_bytes(h) |->
        (i * i * InputWeight(input) + i * output_bytes(h) + InputWeight(input)) % 256]

(* Lines 129-133: the first three bytes are the colour.                    *)
Transparent == <<0, 0, 0, 0>>
FillColor(bytes) == <<bytes[1], bytes[2], bytes[3], 255>>

(* Lines 135-148: the bytes after the colour, each least significant bit   *)
(* first.                                                                  *)
Pow2(k) == IF k = 0 THEN 1 ELSE IF k = 1 THEN 2 ELSE IF k = 2 THEN 4
           ELSE IF k = 3 THEN 8 ELSE IF k = 4 THEN 16 ELSE IF k = 5 THEN 32
           ELSE IF k = 6 THEN 64 ELSE 128

ColorBytes == 3

BitStream(bytes) ==
    [k \in 1..(8 * (Len(bytes) - ColorBytes)) |->
        ((bytes[ColorBytes + 1 + ((k - 1) \div 8)] \div Pow2((k - 1) % 8)) % 2) = 1]

----------------------------------------------------------------------------
(* The canvas: its side lengths and the squares put into it, in order.     *)
(* The buffer is the fold of the puts: a pixel holds the colour of the     *)
(* last square covering it and is transparent when none does.  oob records *)
(* a put_pixel outside the buffer, which panics.                           *)

NoImg == [width |-> 0, height |-> 0, puts |-> << >>, oob |-> FALSE]

new_rgba8(w, h) == [width |-> w, height |-> h, puts |-> << >>, oob |-> FALSE]

(* fill_square with inclusive ranges, x..=x+s and y..=y+s.                 *)
fill_square_inclusive(im, x, y, s, c) ==
    [im EXCEPT !.puts = Append(@, [x |-> x, y |-> y, s |-> s + 1, c |-> c]),
               !.oob = @ \/ (x + s + 1 > im.width \/ y + s + 1 > im.height)]

(* Lines 21-27: put_pixel on every px in x..x+s, py in y..y+s.             *)
fill_square(im, x, y, s, c) ==
    [im EXCEPT !.puts = Append(@, [x |-> x, y |-> y, s |-> s, c |-> c]),
               !.oob = @ \/ (s > 0 /\ (x + s > im.width \/ y + s > im.height))]

PutPixels(p) == {<<px, py>> : px \in p.x..(p.x + p.s - 1), py \in p.y..(p.y + p.s - 1)}

Painted(im) == UNION {PutPixels(im.puts[i]) : i \in 1..Len(im.puts)}

Covers(p, x, y) == x \in p.x..(p.x + p.s - 1) /\ y \in p.y..(p.y + p.s - 1)

GetPixel(im, x, y) ==
    LET over == {i \in 1..Len(im.puts) : Covers(im.puts[i], x, y)}
    IN  IF over = {} THEN Transparent
        ELSE im.puts[CHOOSE i \in over : \A k \in over : k <= i].c

----------------------------------------------------------------------------
(* The render loop, lines 152-167.                                         *)

(* (resolution as f32 - cell_size as f32 * grid_size as f32 * 0.5) as u32: *)
(* the cast truncates, and saturates at 0.                                 *)
Stop(res, cell, gs, sym) ==
    IF sym
    THEN IF 2 * res - cell * gs < 0 THEN 0 ELSE (2 * res - cell * gs) \div 2
    ELSE res

(* (lo..hi).step_by(step): lo, lo + step, ... while below hi.              *)
StepBy(lo, hi, step) ==
    LET n == IF hi > lo THEN (hi - lo + step - 1) \div step ELSE 0
    IN  [k \in 1..n |-> lo + (k - 1) * step]

NoPanic == ""

(* The mirrored column without the cell width taken off.                   *)
MirrorXFromRightEdge(sz, cx, cell) == sz - cx

(* Line 163: the column of the mirrored square.                            *)
MirrorX(sz, cx, cell) == sz - cx - cell

(* Lines 160-165 for one cell.  st: the canvas, the number of next() calls *)
(* so far, the calls per row, and the panic that ended the loop.           *)
CellBody(st, cx, cy, c) ==
    LET asked == [st EXCEPT !.taken = @ + 1,
                            !.popped[Len(st.popped)] = @ + 1]
    IN  IF st.taken >= Len(c.bits)
        THEN [asked EXCEPT !.panic = "unwrap on None"]
        ELSE IF ~c.bits[st.taken + 1]
        THEN asked
        ELSE LET direct == fill_square(asked.img, cx, cy, c.cell_size, c.fill_color)
             IN  IF direct.oob
                 THEN [asked EXCEPT !.img = direct, !.panic = "Image index out of bounds"]
                 ELSE IF ~c.symmetrical
                 THEN [asked EXCEPT !.img = direct]
                 ELSE IF c.size < cx + c.cell_size
                 THEN [asked EXCEPT !.img = direct,
                                    !.panic = "attempt to subtract with overflow"]
                 ELSE LET mirror == fill_square(direct, MirrorX(c.size, cx, c.cell_size),
                                                cy, c.cell_size, c.fill_color)
                      IN  IF mirror.oob
                          THEN [asked EXCEPT !.img = mirror,
                                             !.panic = "Image index out of bounds"]
                          ELSE [asked EXCEPT !.img = mirror]

RECURSIVE ColumnLoop(_, _, _, _, _)
ColumnLoop(st, cxs, i, cy, c) ==
    IF i > Len(cxs) \/ st.panic # NoPanic
    THEN st
    ELSE ColumnLoop(CellBody(st, cxs[i], cy, c), cxs, i + 1, cy, c)

RECURSIVE RowLoop(_, _, _, _)
RowLoop(st, cys, j, c) ==
    IF j > Len(cys) \/ st.panic # NoPanic
    THEN st
    ELSE RowLoop(ColumnLoop([st EXCEPT !.popped = Append(@, 0)],
                            StepBy(c.padding, c.stop, c.cell_size), 1, cys[j], c),
                 cys, j + 1, c)

Render(r, bytes) ==
    LET c == [bits |-> BitStream(bytes),
              fill_color |-> FillColor(bytes),
              cell_size |-> cell_size(r),
              size |-> size(r),
              padding |-> padding(r),
              symmetrical |-> symmetrical(r),
              stop |-> Stop(resolution(r), cell_size(r), grid_size(r), symmetrical(r))]
        st0 == [img |-> new_rgba8(size(r), size(r)), taken |-> 0,
                popped |-> << >>, panic |-> NoPanic]
    IN  RowLoop(st0, StepBy(padding(r), resolution(r), cell_size(r)), 1, c)

----------------------------------------------------------------------------
(* Responses.  A panic unwinds the handler: no response is produced.       *)

Pending ==
    [outcome |-> "pending", status |-> 0, body |-> "",
     x_recommended_size |-> NoneOpt, content_type |-> NoneOpt, format |-> ""]

Reply(status, body) ==
    [outcome |-> "response", status |-> status, body |-> body,
     x_recommended_size |-> NoneOpt, content_type |-> NoneOpt, format |-> ""]

Panic(msg) ==
    [outcome |-> "panic", status |-> 0, body |-> msg,
     x_recommended_size |-> NoneOpt, content_type |-> NoneOpt, format |-> ""]

MsgMethod == "Only GET requests are supported"
MsgNoName == "No name was provided"
MsgDivisible == "The resolution must be evenly divisible by the size"
MsgResolution == "Resolution cannot exceed 1000"
MsgIco == "ICO size (pad * 2 + res) must be in range 1-256"
MsgCell == "Grid size cannot be larger than resolution"
MsgGrid == "Grid size must be less from range 1-21"

(* Lines 169-174.                                                          *)
ImageFormat(ext) ==
    CASE ext = "bmp" -> "Bmp"
      [] ext = "jpeg" -> "Jpeg"
      [] ext = "ico" -> "Ico"
      [] OTHER -> "Png"

(* The encoders are the image crate's: they serialise every canvas the    *)
(* checks above let through (each has a side of at least one pixel here).  *)
Ended(rs) == [resp |-> rs, hasher |-> NoHasher, popped |-> << >>, img |-> NoImg]

(* Lines 33-182: the handler on request r, built with overflow checks oc.  *)
gen_identicon(r, oc) ==
    IF r.method # "GET" THEN Ended(Reply(405, MsgMethod))
    ELSE IF grid_size(r) = 0 THEN Ended(Panic("attempt to divide by zero"))
    ELSE IF oc /\ SizeOverflows(resolution(r), padding(r))
    THEN Ended(Panic("attempt to add with overflow"))
    ELSE IF ~IsSome(file_name(r)) THEN Ended(Reply(404, MsgNoName))
    ELSE IF resolution(r) % grid_size(r) # 0
    THEN Ended([Reply(400, MsgDivisible) EXCEPT !.x_recommended_size =
                    Some(closest_multiple(resolution(r), grid_size(r)))])
    ELSE IF resolution(r) > MaxResolution THEN Ended(Reply(400, MsgResolution))
    ELSE IF size(r) > MaxIco /\ extension(r) = "ico" THEN Ended(Reply(400, MsgIco))
    ELSE IF cell_size(r) = 0 THEN Ended(Reply(400, MsgCell))
    ELSE IF SelectHasher(grid_size(r)) = NoHasher THEN Ended(Reply(400, MsgGrid))
    ELSE LET h == SelectHasher(grid_size(r))
             bytes == HashResult(h, Unwrap(file_name(r)))
             done == Render(r, bytes)
         IN  IF done.panic # NoPanic
             THEN [resp |-> Panic(done.panic), hasher |-> h,
                   popped |-> done.popped, img |-> done.img]
             ELSE [resp |-> [Reply(200, "image") EXCEPT
                                !.content_type = Some(extension(r)),
                                !.format = ImageFormat(extension(r))],
                   hasher |-> h, popped |-> done.popped, img |-> done.img]

----------------------------------------------------------------------------
(* The requests of the model.  Small: every grid size against every small  *)
(* resolution and padding, where whole renders are enumerated.  Edge: the  *)
(* defaults, the limits 256 and 1000, the largest padding, other methods,  *)
(* a path without a name.  Unparsable: query values that do not parse.     *)

Values(S) == {Some(Parsed(v)) : v \in S}

SmallRequests ==
    [method : {"GET"},
     file_name : {Some("alice"), Some("bob")},
     extension : {Some("png")},
     query : [size : Values(0..MaxGrid),
              res : Values(0..MaxRes),
              pad : Values(0..MaxPad),
              sym : Values(BOOLEAN)]]

EdgeRequests ==
    [method : {"GET", "POST"},
     file_name : {NoneOpt, Some("alice")},
     extension : {NoneOpt, Some("ico"), Some("jpeg")},
     query : [size : {NoneOpt} \cup Values({0, 22}),
              res : {NoneOpt} \cup Values({199, 1003, 1100}),
              pad : {NoneOpt} \cup Values({28, 29, BigPad}),
              sym : {NoneOpt} \cup Values({FALSE})]]

UnparsableRequests ==
    [method : {"GET"},
     file_name : {Some("bob")},
     extension : {Some("bmp")},
     query : [size : {Some(Garbage)},
              res : {Some(Garbage)} \cup Values({199}),
              pad : {Some(Garbage)},
              sym : {Some(GarbageBool)}]]

(* The u32 sum of line 61 either stays below 2^31 or wraps.                *)
Representable(r) ==
    \/ r.method # "GET"
    \/ grid_size(r) = 0
    \/ SizeFits(resolution(r), padding(r))
    \/ SizeOverflows(resolution(r), padding(r))

Requests ==
    {r \in SmallRequests \cup EdgeRequests \cup UnparsableRequests : Representable(r)}

----------------------------------------------------------------------------

Init ==
    /\ req \in Requests
    /\ overflow_checks \in BOOLEAN
    /\ resp = Pending
    /\ hasher = NoHasher
    /\ popped = << >>
    /\ img = NoImg

GenIdenticon ==
    /\ resp.outcome = "pending"
    /\ LET out == gen_identicon(req, overflow_checks)
       IN  /\ resp' = out.resp
           /\ hasher' = out.hasher
           /\ popped' = out.popped
           /\ img' = out.img
    /\ UNCHANGED <<req, overflow_checks>>

Next == GenIdenticon

Spec == Init /\ [][Next]_vars

----------------------------------------------------------------------------
(* Vocabulary of the properties.                                           *)

Done == resp.outcome # "pending"
Responded == resp.outcome = "response"
Panicked == resp.outcome = "panic"
Success == Responded /\ resp.status = 200
Rejected == Responded /\ resp.status \in 400..499
Named == req.method = "GET" /\ IsSome(req.file_name)
Rendered == Done /\ hasher # NoHasher

RECURSIVE SumSeq(_, _)
SumSeq(q, n) == IF n = 0 THEN 0 ELSE q[n] + SumSeq(q, n - 1)

Taken == SumSeq(popped, Len(popped))

DigestBytes == HashResult(hasher, Unwrap(req.file_name))

----------------------------------------------------------------------------
(* C1: every GET request with a name whose grid size is outside 1-21 is    *)
(* answered with a 4xx rejection: never a success image, never a panic.    *)
(* Fails: size=0 divides by zero on line 60, before any check, and with    *)
(* overflow checks the sum of line 61 panics for the largest paddings.     *)
C1_OutOfRangeGridIsRejected ==
    (Done /\ Named /\ grid_size(req) \notin 1..21) => Rejected

----------------------------------------------------------------------------
(* C2: the X-Recommended-Size of a divisibility rejection is the multiple  *)
(* of the grid size nearest to the resolution (a tie goes up), and is a    *)
(* valid resolution itself: at least the grid size, at most 1000.          *)
(* Fails: a resolution below half the grid size is rounded to 0, one just  *)
(* under 1000 can be rounded above it.                                     *)
C2_RecommendedSizeIsValid ==
    (Responded /\ resp.body = MsgDivisible) =>
        /\ IsSome(resp.x_recommended_size)
        /\ LET v == Unwrap(resp.x_recommended_size)
               gs == grid_size(req)
               res == resolution(req)
               gap == IF v > res THEN v - res ELSE res - v
           IN  /\ v % gs = 0
               /\ 2 * gap <= gs
               /\ (2 * gap = gs => v > res)
               /\ v >= gs
               /\ v <= MaxResolution

----------------------------------------------------------------------------
----------------------------------------------------------------------------
(* C6: a success image comes from valid render parameters, with the sums   *)
(* taken over the integers: grid size in 1-21, resolution a multiple of it *)
(* from 1 to 1000, a canvas of side resolution + 2 * padding, and for ico  *)
(* resolution + 2 * padding at most 256.                                   *)
(* Fails without overflow checks: the u32 sum wraps for the largest        *)
(* paddings, and the wrapped value sizes the canvas and passes the check.  *)
C6_SuccessHasValidParameters ==
    Success =>
        /\ grid_size(req) \in 1..21
        /\ resolution(req) % grid_size(req) = 0
        /\ resolution(req) \div grid_size(req) >= 1
        /\ resolution(req) <= 1000
        /\ SizeFits(resolution(req), padding(req))
        /\ img.width = resolution(req) + 2 * padding(req)
        /\ img.height = resolution(req) + 2 * padding(req)
        /\ extension(req) = "ico" => resolution(req) + 2 * padding(req) <= 256

----------------------------------------------------------------------------
(* C9: a render visits exactly grid_size rows and pops, in every row,      *)
(* grid_size bits without symmetry and ceil(grid_size / 2) bits with it,   *)
(* whatever the padding.                                                   *)
(* Fails: both ranges start at padding but end at resolution and stop, not *)
(* at padding + resolution and padding + stop; and stop truncates, which   *)
(* drops the middle column of an odd grid with cells one pixel wide.       *)
C9_WholeGridIsDriven ==
    Success =>
        /\ Len(popped) = grid_size(req)
        /\ \A j \in 1..Len(popped) :
              popped[j] = IF symmetrical(req)
                          THEN (grid_size(req) + 1) \div 2
                          ELSE grid_size(req)

----------------------------------------------------------------------------
(* C4: a render never runs out of bits: the next() calls of the two loops  *)
(* number at most 8 * (digest length - 3), so the unwrap never fails.      *)
C4_BitsNeverExhausted ==
    Rendered =>
        /\ Taken <= 8 * (output_bytes(hasher) - 3)
        /\ Taken <= Len(BitStream(DigestBytes))
        /\ resp.body # "unwrap on None"

C4_Witness ==
    /\ Success
    /\ grid_size(req) = 21
    /\ ~symmetrical(req)
    /\ Taken = 441

----------------------------------------------------------------------------
(* C7: the digest depends on the grid size alone, by the fixed table       *)
(* 1-13: 28 bytes, 14: 32, 15-18: 48, 19-21: 64, and the buffer given to   *)
(* the bit stream has that length.                                         *)
TableLength(gs) ==
    IF gs <= 13 THEN 28 ELSE IF gs = 14 THEN 32 ELSE IF gs <= 18 THEN 48 ELSE 64

C7_DigestByGridSize ==
    /\ Rendered =>
        /\ grid_size(req) \in 1..21
        /\ output_bytes(hasher) = TableLength(grid_size(req))
        /\ Len(DigestBytes) = TableLength(grid_size(req))
        /\ Len(BitStream(DigestBytes)) = 8 * (TableLength(grid_size(req)) - 3)
    /\ Success => hasher # NoHasher

C7_Witness ==
    /\ Success
    /\ grid_size(req) = 14
    /\ output_bytes(hasher) = 32
    /\ padding(req) > 0

----------------------------------------------------------------------------
(* C5: with symmetry the finished canvas is mirrored about its vertical    *)
(* centre line: every square put has its mirror image put in the same      *)
(* colour, and every pixel equals the pixel at width - 1 - x.  Without     *)
(* symmetry a true bit fills its own cell and nothing else.                *)
TrueBits(bits, n) == Cardinality({i \in 1..n : bits[i]})

C5_MirroredWhenSymmetrical ==
    Success =>
        LET P == IF symmetrical(req) THEN Painted(img) ELSE {}
            bits == BitStream(DigestBytes)
            cell == cell_size(req)
            pad == padding(req)
            ncols == IF Len(popped) = 0 THEN 0 ELSE popped[1]
            Put(k) == img.puts[k]
        IN  /\ \A k \in 1..Len(img.puts) : Put(k).c = FillColor(DigestBytes)
            /\ symmetrical(req) =>
                /\ \A k \in 1..Len(img.puts) : \E m \in 1..Len(img.puts) :
                      Put(m) = [Put(k) EXCEPT !.x = img.width - Put(k).x - cell]
                /\ \A p \in P : <<img.width - 1 - p[1], p[2]>> \in P
                /\ \A k \in 1..Len(img.puts) :
                      GetPixel(img, Put(k).x, Put(k).y)
                          = GetPixel(img, img.width - 1 - Put(k).x, Put(k).y)
            /\ ~symmetrical(req) =>
                /\ Len(img.puts) = TrueBits(bits, Taken)
                /\ \A k \in 1..Len(img.puts) :
                      /\ (Put(k).x - pad) % cell = 0
                      /\ (Put(k).y - pad) % cell = 0
                      /\ (Put(k).x - pad) \div cell < ncols
                      /\ bits[((Put(k).y - pad) \div cell) * ncols
                              + ((Put(k).x - pad) \div cell) + 1]

C5_Witness ==
    /\ Success
    /\ symmetrical(req)
    /\ padding(req) > 0
    /\ Len(img.puts) > 2
    /\ \E k \in 1..Len(img.puts) : img.puts[k].x > img.width \div 2

----------------------------------------------------------------------------
(* C10: every pixel a render writes lies in the pattern area, x and y both *)
(* in [padding, padding + resolution): the mirror column never underflows, *)
(* no put_pixel leaves the canvas, the border of width padding stays       *)
(* transparent.                                                            *)
C10_FillsStayInPattern ==
    Rendered =>
        LET pad == padding(req)
            res == resolution(req)
            w == img.width
            h == img.height
        IN  /\ ~img.oob
            /\ resp.body \notin {"Image index out of bounds",
                                 "attempt to subtract with overflow"}
            /\ \A k \in 1..Len(img.puts) : \A p \in PutPixels(img.puts[k]) :
                  /\ pad <= p[1] /\ p[1] - pad < res
                  /\ pad <= p[2] /\ p[2] - pad < res
                  /\ p[1] < w /\ p[2] < h

C10_Witness ==
    /\ Success
    /\ padding(req) = MaxPad
    /\ \E k \in 1..Len(img.puts) :
          /\ img.puts[k].x + img.puts[k].s = padding(req) + resolution(req)
          /\ img.puts[k].y + img.puts[k].s = padding(req) + resolution(req)

====
